---- MODULE Spec2Model ----
(***************************************************************************)
(* Terminal view adapter of sshx (src/lib/ui/XTerm.svelte).                *)
(*                                                                         *)
(* The browser runs one cooperative event loop: a step of the model is one *)
(* run-to-completion piece of code, i.e. the code between two awaits of an *)
(* async function, or one DOM event dispatch.                              *)
(***************************************************************************)
EXTENDS Integers, Sequences, FiniteSets, TLC

\* ---------------------------------------------------------------- bounds
NumViews == 2
MaxWrites == 3
MaxPointer == 4
MaxKeys == 2
MaxOut == 1
MaxStrLen == 3

Views == 1..NumViews

\* ------------------------------------------------------- program constants
CtrlA == 1
CtrlE == 5
CtrlU == 21
GetWinSizeChars == 18

VARIABLES
  \* module-level (process-wide) state
  state,          \* font gate: "initial" | "loading" | "loaded"
  waitlist,       \* resolve callbacks pushed by waiting callers (never cleared)
  patched,        \* patchXTerm's flag
  lacks,          \* handlers the engine class does not have under the expected names
  proto,          \* handlers installed on the shared engine class prototypes
  isMac,          \* platform flag, fixed at start
  \* per view (component instance)
  pc,             \* position of the async onMount callback
  alive,          \* component not yet destroyed
  term,           \* term # null
  disposed,       \* term.dispose() has been called
  loaded,         \* the component's `loaded` flag
  preloadBuffer,  \* chunks buffered by write before the engine exists
  dims,           \* the props <<cols, rows>>
  termSize,       \* size of the engine, <<cols, rows>>
  dirty,          \* a component update is scheduled (the reactive statement will run)
  steps,          \* the calls made by lines 127-182, in program order
  subs,           \* engine subscriptions made by the view
  keyHandler,     \* custom key event handler attached
  listeners,      \* window mousemove/mouseup/mouseleave listeners registered
  dragging,
  prevMouse,      \* <<prevMouseX, prevMouseY>>
  \* environment and observation
  loads,          \* number of FontFaceObserver.load() operations started
  loadsSettled,   \* number of those that have settled (resolved or rejected)
  warned,         \* console.warn calls made by the view's waitForFonts call
  written,        \* chunks passed to write, per view, in call order
  engineIn,       \* chunks received by the engine's write, per view, in order
  events,         \* events dispatched by the view, in order
  nWrites, nPointer, nKeys, nOut,  \* input counters (bounded)
  mouse,          \* position of the pointer, as of the latest pointer event
  pressPos,       \* position of the latest press on the draggable part of a header
  lastPointer,    \* the latest pointer input
  lastKey,        \* the latest key event given to the interceptor, with its result
  lastQuery,      \* the latest engine handler invocation, with its result
  lastOut         \* the latest string the engine reported through onData or onBinary

gateVars == <<state, waitlist, loads, warned, loadsSettled>>
patchVars == <<patched, proto, lacks>>
lifeVars == <<pc, alive, term, disposed, loaded, subs, keyHandler, listeners>>
bufVars == <<preloadBuffer, written, engineIn, nWrites>>
sizeVars == <<dims, termSize, dirty>>
dragVars == <<dragging, prevMouse, mouse, pressPos, lastPointer, nPointer>>
keyVars == <<lastKey, nKeys>>
queryVars == <<lastQuery>>
outVars == <<lastOut, nOut>>

vars == <<state, waitlist, patched, proto, isMac, pc, alive, term, disposed, loaded,
          preloadBuffer, dims, termSize, subs, keyHandler, listeners, dragging,
          prevMouse, loads, warned, written, engineIn, events, nWrites, nPointer,
          nKeys, mouse, pressPos, lastPointer, lastKey, lastQuery, lacks, dirty, steps,
          loadsSettled, nOut, lastOut>>


\* ------------------------------------------------------------- helpers
Ev(type, x, y, bytes) == [type |-> type, x |-> x, y |-> y, bytes |-> bytes]
DataEv(bytes) == Ev("data", 0, 0, bytes)
MovingEv(d) == Ev("moving", d[1], d[2], <<>>)
MoveEv(d) == Ev("move", d[1], d[2], <<>>)
FocusEv == Ev("focus", 0, 0, <<>>)
CloseEv == Ev("close", 0, 0, <<>>)

Delta(p, q) == <<p[1] - q[1], p[2] - q[2]>>
Range(s) == {s[i] : i \in 1..Len(s)}

\* pointer positions (pageX, pageY) the environment produces
Points == {<<100, 100>>, <<130, 115>>, <<150, 140>>}
Buttons == {0, 2}
Regions == {"control", "header", "body"}

\* key events the environment produces
Keys == {"ArrowLeft", "ArrowRight", "Backspace", "a"}
KeyEvents == [key : Keys, metaKey : BOOLEAN, ctrlKey : BOOLEAN, altKey : BOOLEAN]

\* engine handlers reached by escape-sequence queries, and window-options sub-codes
Handlers == {"_handleColorEvent", "_reportFocus", "unhook",
             "sendDeviceAttributesPrimary", "sendDeviceAttributesSecondary",
             "deviceStatus", "deviceStatusPrivate", "windowOptions"}
WinParams == {14, GetWinSizeChars, 19}

DefaultDims == <<80, 24>>

\* sizes <<cols, rows>> the owner passes as props
Sizes == {DefaultDims, <<100, 30>>}

\* strings the engine reports: sequences of UTF-16 code units (here all below 0x100,
\* which is what a binary-mode string consists of)
Chars == {0, 65, 255}
Strings == UNION {[1..n -> Chars] : n \in 1..MaxStrLen}

\* TextEncoder.encode, for code units below 0x800
Utf8Char(c) == IF c < 128 THEN <<c>> ELSE <<192 + (c \div 64), 128 + (c % 64)>>

RECURSIVE Utf8Encode(_)
Utf8Encode(s) == IF s = <<>> THEN <<>> ELSE Utf8Char(Head(s)) \o Utf8Encode(Tail(s))

\* Buffer.from(data, "binary"): one byte per code unit, its low 8 bits
Latin1Encode(s) == [i \in 1..Len(s) |-> s[i] % 256]

\* the callbacks given to term.onData and term.onBinary: the payload of the data event
onData(data) == Utf8Encode(data)

onBinaryAsText(data) == Utf8Encode(data)

onBinary(data) == Latin1Encode(data)
NoPointer == [type |-> "none", view |-> 0, region |-> "none", button |-> 0, pos |-> <<0, 0>>]
NoKey == [view |-> 0, ev |-> [key |-> "none", metaKey |-> FALSE, ctrlKey |-> FALSE,
                              altKey |-> FALSE], ret |-> TRUE, out |-> <<>>]
NoOut == [view |-> 0, kind |-> "none", str |-> <<>>]
NoQuery == [view |-> 0, handler |-> "none", param |-> 0, origRet |-> "none",
            reply |-> FALSE, ret |-> "none", origCalls |-> <<>>]

\* ----------------------------------------------------------------- Init
\* Every component has been instantiated (its script has run: write is bound, the
\* buffer is empty, term is null) and its onMount callbacks have not run yet.
Boot ==
  /\ state = "initial"
  /\ waitlist = <<>>
  /\ patched = FALSE
  /\ proto = [h \in Handlers |-> <<>>]
  /\ isMac \in BOOLEAN
  /\ pc = [v \in Views |-> "created"]
  /\ alive = [v \in Views |-> TRUE]
  /\ term = [v \in Views |-> FALSE]
  /\ disposed = [v \in Views |-> FALSE]
  /\ loaded = [v \in Views |-> FALSE]
  /\ preloadBuffer = [v \in Views |-> <<>>]
  /\ dims = [v \in Views |-> DefaultDims]
  /\ termSize = [v \in Views |-> <<0, 0>>]
  /\ subs = [v \in Views |-> {}]
  /\ keyHandler = [v \in Views |-> FALSE]
  /\ listeners = [v \in Views |-> FALSE]
  /\ dragging = [v \in Views |-> FALSE]
  /\ prevMouse = [v \in Views |-> <<0, 0>>]
  /\ loads = 0
  /\ warned = [v \in Views |-> FALSE]
  /\ written = [v \in Views |-> <<>>]
  /\ engineIn = [v \in Views |-> <<>>]
  /\ events = [v \in Views |-> <<>>]
  /\ nWrites = 0 /\ nPointer = 0 /\ nKeys = 0
  /\ mouse = <<100, 100>>
  /\ pressPos = [v \in Views |-> <<0, 0>>]
  /\ lastPointer = NoPointer
  /\ lastKey = NoKey
  /\ lastQuery = NoQuery
  /\ dirty = [v \in Views |-> FALSE]
  /\ steps = [v \in Views |-> <<>>]
  /\ loadsSettled = 0
  /\ nOut = 0
  /\ lastOut = NoOut

\* the engine class has every handler patchXTerm expects
Init == Boot /\ lacks = {}

\* an engine class (another release of the library) without one of them
InitIncompat == Boot /\ \E h \in Handlers : lacks = {h}

\* ------------------------------------------------------- font readiness gate
waitForFontsCallNoWait(v) ==
  IF state = "initial"
    THEN /\ pc' = [pc EXCEPT ![v] = "importFFO"]
         /\ UNCHANGED waitlist
    ELSE /\ pc' = [pc EXCEPT ![v] = "fontsDone"]
         /\ UNCHANGED waitlist

\* waitForFonts up to its first suspension: the state test, then either the return,
\* the await of import("fontfaceobserver"), or the Promise executor of the else branch.
waitForFontsCall(v) ==
  IF state = "loaded"
    THEN /\ pc' = [pc EXCEPT ![v] = "fontsDone"]
         /\ UNCHANGED waitlist
    ELSE IF state = "initial"
      THEN /\ pc' = [pc EXCEPT ![v] = "importFFO"]
           /\ UNCHANGED waitlist
      ELSE IF state = "loaded"
        THEN /\ pc' = [pc EXCEPT ![v] = "fontsDone"]
             /\ UNCHANGED waitlist
        ELSE /\ pc' = [pc EXCEPT ![v] = "waiting"]
             /\ waitlist' = Append(waitlist, v)

\* the import of line 11 has resolved: state = "loading" and the load is started
waitForFontsImported(v) ==
  /\ state' = "loading"
  /\ loads' = loads + 1
  /\ pc' = [pc EXCEPT ![v] = "fontLoad"]

\* the load of line 14 has settled (ok or rejected): warn on rejection, state =
\* "loaded", every callback of the waitlist is called, the caller returns
waitForFontsSettledNoCatch(v, ok) ==
  IF ok
    THEN /\ state' = "loaded"
         /\ pc' = [w \in Views |->
                     IF w = v \/ (pc[w] = "waiting" /\ \E i \in 1..Len(waitlist) : waitlist[i] = w)
                       THEN "fontsDone" ELSE pc[w]]
         /\ UNCHANGED warned
    ELSE /\ pc' = [pc EXCEPT ![v] = "rejected"]
         /\ UNCHANGED <<state, warned>>

waitForFontsSettled(v, ok) ==
  /\ warned' = [warned EXCEPT ![v] = ~ok]
  /\ state' = "loaded"
  /\ pc' = [w \in Views |->
              IF w = v \/ (pc[w] = "waiting" /\ \E i \in 1..Len(waitlist) : waitlist[i] = w)
                THEN "fontsDone" ELSE pc[w]]

\* ---------------------------------------------------------- suppression patch
\* A handler of the shared class is a stack of layers: <<>> is the engine's original
\* method, "noop" and "reset" are replacements that ignore what was there, "wrap18" is
\* the window-options wrapper, which keeps the method it replaced and may call it.
NoopHandlers == {"_handleColorEvent", "_reportFocus", "sendDeviceAttributesPrimary",
                 "sendDeviceAttributesSecondary", "deviceStatus", "deviceStatusPrivate"}

patchXTermEveryTime(pt, pr) ==
  [patched |-> TRUE,
   proto |-> [h \in Handlers |->
                IF h \in NoopHandlers THEN <<"noop">>
                ELSE IF h = "unhook" THEN <<"reset">>
                ELSE Append(pr[h], "wrap18")]]

patchXTerm(pt, pr) ==
  IF pt
    THEN [patched |-> TRUE, proto |-> pr]
    ELSE [patched |-> TRUE,
          proto |-> [h \in Handlers |->
                       IF h \in NoopHandlers THEN <<"noop">>
                       ELSE IF h = "unhook" THEN <<"reset">>
                       ELSE Append(pr[h], "wrap18")]]

\* the test of the window-options wrapper: handled here, without the original
ShortCircuitAlways(param) == TRUE

ShortCircuit(param) == param = GetWinSizeChars

\* The engine's original handlers answer the query: they trigger a data event (the
\* reply) and return origRet.
RECURSIVE CallHandler(_, _, _, _)
CallHandler(layers, recv, param, origRet) ==
  IF layers = <<>>
    THEN [reply |-> TRUE, ret |-> origRet, origCalls |-> <<<<recv, param>>>>]
    ELSE LET top == layers[Len(layers)]
             inner == SubSeq(layers, 1, Len(layers) - 1)
         IN  IF top = "noop"
               THEN [reply |-> FALSE, ret |-> "undefined", origCalls |-> <<>>]
             ELSE IF top = "reset"
               THEN [reply |-> FALSE, ret |-> "true", origCalls |-> <<>>]
             ELSE IF ShortCircuit(param)
               THEN [reply |-> FALSE, ret |-> "true", origCalls |-> <<>>]
               ELSE CallHandler(inner, recv, param, origRet)

\* ------------------------------------------------------------ key interceptor
ChordBytesSwapped(key) ==
  IF key = "ArrowLeft" THEN <<CtrlE>>
  ELSE IF key = "ArrowRight" THEN <<CtrlA>>
  ELSE IF key = "Backspace" THEN <<CtrlU>>
  ELSE <<>>

ChordBytes(key) ==
  IF key = "ArrowLeft" THEN <<CtrlA>>
  ELSE IF key = "ArrowRight" THEN <<CtrlE>>
  ELSE IF key = "Backspace" THEN <<CtrlU>>
  ELSE <<>>

ChordModifiers(mac, ev) ==
  \/ (mac /\ ev.metaKey /\ ~ev.ctrlKey /\ ~ev.altKey)
  \/ (~mac /\ ~ev.metaKey /\ ev.ctrlKey /\ ~ev.altKey)

customKeyEventHandler(mac, ev) ==
  IF ChordModifiers(mac, ev) /\ ChordBytes(ev.key) # <<>>
    THEN [ret |-> FALSE, out |-> <<DataEv(ChordBytes(ev.key))>>]
    ELSE [ret |-> TRUE, out |-> <<>>]

\* ---------------------------------------------------------------- write buffer
writeDropsBuffered(v, data) ==
  IF ~term[v]
    THEN [preloadBuffer |-> <<data>>, engineIn |-> engineIn[v]]
    ELSE [preloadBuffer |-> preloadBuffer[v], engineIn |-> Append(engineIn[v], data)]

writeAlsoBuffers(v, data) ==
  IF ~term[v]
    THEN [preloadBuffer |-> Append(preloadBuffer[v], data), engineIn |-> engineIn[v]]
    ELSE [preloadBuffer |-> Append(preloadBuffer[v], data),
          engineIn |-> Append(engineIn[v], data)]

write(v, data) ==
  IF ~term[v]
    THEN [preloadBuffer |-> Append(preloadBuffer[v], data), engineIn |-> engineIn[v]]
    ELSE [preloadBuffer |-> preloadBuffer[v], engineIn |-> Append(engineIn[v], data)]

RECURSIVE Reverse(_)
Reverse(s) == IF s = <<>> THEN <<>> ELSE Append(Reverse(Tail(s)), Head(s))

flushPreloadReversed(buf, recv) == recv \o Reverse(buf)

\* for (const data of preloadBuffer) term.write(data): the buffer itself is kept
flushPreload(buf, recv) == recv \o buf

\* ------------------------------------------------------------ view lifecycle
\* The component is mounted: the async onMount callback runs up to its first await
\* and the second onMount callback registers the window listeners.
Mount(v) ==
  /\ pc[v] = "created"
  /\ pc' = [pc EXCEPT ![v] = "importXterm"]
  /\ listeners' = [listeners EXCEPT ![v] = TRUE]
  /\ UNCHANGED <<gateVars, patchVars, isMac, steps, outVars, alive, term, disposed, loaded, subs, keyHandler,
                 bufVars, sizeVars, dragVars, keyVars, queryVars, events>>

XtermImported(v) ==
  /\ pc[v] = "importXterm"
  /\ pc' = [pc EXCEPT ![v] = "importLinks"]
  /\ UNCHANGED <<gateVars, patchVars, isMac, steps, outVars, alive, term, disposed, loaded, subs, keyHandler,
                 listeners, bufVars, sizeVars, dragVars, keyVars, queryVars, events>>

\* the second import has resolved and waitForFonts is called
LinksImported(v) ==
  /\ pc[v] = "importLinks"
  /\ waitForFontsCall(v)
  /\ UNCHANGED <<state, loads, warned, loadsSettled, patchVars, isMac, steps, outVars, alive, term, disposed, loaded, subs,
                 keyHandler, listeners, bufVars, sizeVars, dragVars, keyVars, queryVars,
                 events>>

FontImported(v) ==
  /\ pc[v] = "importFFO"
  /\ waitForFontsImported(v)
  /\ UNCHANGED <<waitlist, warned, loadsSettled, patchVars, isMac, steps, outVars, alive, term, disposed, loaded, subs,
                 keyHandler, listeners, bufVars, sizeVars, dragVars, keyVars, queryVars,
                 events>>

FontSettled(v, ok) ==
  /\ pc[v] = "fontLoad"
  /\ waitForFontsSettled(v, ok)
  /\ loadsSettled' = loadsSettled + 1
  /\ UNCHANGED <<waitlist, loads, patchVars, isMac, steps, outVars, alive, term, disposed, loaded, subs,
                 keyHandler, listeners, bufVars, sizeVars, dragVars, keyVars, queryVars,
                 events>>

\* the engine's notifications the view subscribes to
Subscriptions == {"title", "data", "binary"}

\* the calls onMount makes once waitForFonts has returned, in program order
MountStepsDataBeforeFlush ==
  <<"construct", "patch", "keys", "addon", "open", "resize", "title", "loaded",
    "data", "binary", "flush">>

MountSteps ==
  <<"construct", "patch", "keys", "addon", "open", "resize", "title", "loaded",
    "flush", "data", "binary">>

\* term.resize(cols, rows): the engine's size afterwards, <<cols, rows>>
resizeTransposed(cols, rows) == <<rows, cols>>

resize(cols, rows) == <<cols, rows>>

\* waitForFonts has returned: lines 127-182 run without suspension
MountEngine(v) ==
  /\ pc[v] = "fontsDone"
  /\ term' = [term EXCEPT ![v] = TRUE]
  /\ LET r == patchXTerm(patched, proto)
     IN  patched' = r.patched /\ proto' = r.proto
  /\ keyHandler' = [keyHandler EXCEPT ![v] = TRUE]
  /\ termSize' = [termSize EXCEPT ![v] = resize(dims[v][1], dims[v][2])]
  /\ dirty' = [dirty EXCEPT ![v] = TRUE]
  /\ loaded' = [loaded EXCEPT ![v] = TRUE]
  /\ engineIn' = [engineIn EXCEPT ![v] = flushPreload(preloadBuffer[v], engineIn[v])]
  /\ steps' = [steps EXCEPT ![v] = MountSteps]
  /\ subs' = [subs EXCEPT ![v] = Range(MountSteps) \cap Subscriptions]
  /\ pc' = [pc EXCEPT ![v] = "ready"]
  /\ UNCHANGED <<gateVars, isMac, lacks, outVars, alive, disposed, listeners, preloadBuffer,
                 written, nWrites, dims, dragVars, keyVars, queryVars, events>>

\* the owner calls the bound write function
Write(v) ==
  /\ alive[v]
  /\ nWrites < MaxWrites
  /\ LET data == nWrites + 1
         r == write(v, data)
     IN  /\ preloadBuffer' = [preloadBuffer EXCEPT ![v] = r.preloadBuffer]
         /\ engineIn' = [engineIn EXCEPT ![v] = r.engineIn]
         /\ written' = [written EXCEPT ![v] = Append(@, data)]
  /\ nWrites' = nWrites + 1
  /\ UNCHANGED <<gateVars, patchVars, isMac, steps, outVars, lifeVars, sizeVars, dragVars, keyVars, queryVars,
                 events>>

\* the component is destroyed: onDestroy (term?.dispose()) and the cleanup returned
\* by the second onMount callback
Destroy(v) ==
  /\ alive[v]
  /\ pc[v] # "created"
  /\ alive' = [alive EXCEPT ![v] = FALSE]
  /\ disposed' = [disposed EXCEPT ![v] = term[v]]
  /\ subs' = [subs EXCEPT ![v] = IF term[v] THEN {} ELSE @]
  /\ keyHandler' = [keyHandler EXCEPT ![v] = IF term[v] THEN FALSE ELSE @]
  /\ listeners' = [listeners EXCEPT ![v] = FALSE]
  /\ UNCHANGED <<gateVars, patchVars, isMac, steps, outVars, pc, term, loaded, bufVars, sizeVars, dragVars,
                 keyVars, queryVars, events>>

\* ------------------------------------------------------------ pointer handling
\* handleDrag and handleDragEnd, as the new drag state and the events dispatched
handleDragIncremental(v, pos, start) ==
  IF start
    THEN [dragging |-> TRUE, prevMouse |-> pos, out |-> <<>>]
    ELSE IF dragging[v]
      THEN [dragging |-> TRUE, prevMouse |-> pos,
            out |-> <<MovingEv(Delta(pos, prevMouse[v]))>>]
      ELSE [dragging |-> FALSE, prevMouse |-> prevMouse[v], out |-> <<>>]

handleDrag(v, pos, start) ==
  IF start
    THEN [dragging |-> TRUE, prevMouse |-> pos, out |-> <<>>]
    ELSE IF dragging[v]
      THEN [dragging |-> TRUE, prevMouse |-> prevMouse[v],
            out |-> <<MovingEv(Delta(pos, prevMouse[v]))>>]
      ELSE [dragging |-> FALSE, prevMouse |-> prevMouse[v], out |-> <<>>]

handleDragEndKeepsDragging(v, pos) ==
  IF ~dragging[v]
    THEN [dragging |-> FALSE, prevMouse |-> prevMouse[v], out |-> <<>>]
    ELSE [dragging |-> TRUE, prevMouse |-> prevMouse[v],
          out |-> <<MoveEv(Delta(pos, prevMouse[v]))>>]

handleDragEnd(v, pos) ==
  IF ~dragging[v]
    THEN [dragging |-> FALSE, prevMouse |-> prevMouse[v], out |-> <<>>]
    ELSE [dragging |-> FALSE, prevMouse |-> prevMouse[v],
          out |-> <<MoveEv(Delta(pos, prevMouse[v]))>>]

\* The mousedown listeners a press reaches, innermost first. The three header buttons
\* stop the propagation; the rest of the header bubbles to the container.
PressPathFocusOnlyOutsideHeader(region) ==
  IF region = "control" THEN <<>>
  ELSE IF region = "header" THEN <<"header">>
  ELSE <<"container">>

PressPath(region) ==
  IF region = "control" THEN <<>>
  ELSE IF region = "header" THEN <<"header", "container">>
  ELSE <<"container">>

\* a mouse button is pressed on a region of the view, where the pointer is
Press(v, region, button) ==
  /\ alive[v]
  /\ pc[v] # "created"
  /\ nPointer < MaxPointer
  /\ LET pos == mouse
         path == Range(PressPath(region))
         r == IF "header" \in path
                THEN handleDrag(v, pos, TRUE)
                ELSE [dragging |-> dragging[v], prevMouse |-> prevMouse[v], out |-> <<>>]
     IN  /\ dragging' = [dragging EXCEPT ![v] = r.dragging]
         /\ prevMouse' = [prevMouse EXCEPT ![v] = r.prevMouse]
         /\ events' = [events EXCEPT ![v] =
                         @ \o r.out \o (IF "container" \in path THEN <<FocusEv>> ELSE <<>>)]
  /\ pressPos' = [pressPos EXCEPT ![v] = IF region = "header" THEN mouse ELSE @]
  /\ lastPointer' = [type |-> "press", view |-> v, region |-> region, button |-> button,
                     pos |-> mouse]
  /\ nPointer' = nPointer + 1
  /\ UNCHANGED <<mouse, gateVars, patchVars, isMac, steps, outVars, lifeVars, bufVars, sizeVars, keyVars, queryVars>>

\* the close button is clicked
ClickClose(v) ==
  /\ alive[v]
  /\ pc[v] # "created"
  /\ nPointer < MaxPointer
  /\ events' = [events EXCEPT ![v] = Append(@, CloseEv)]
  /\ lastPointer' = [type |-> "click", view |-> v, region |-> "control", button |-> 0,
                     pos |-> mouse]
  /\ nPointer' = nPointer + 1
  /\ UNCHANGED <<gateVars, patchVars, isMac, steps, outVars, lifeVars, bufVars, sizeVars, keyVars, queryVars,
                 dragging, prevMouse, mouse, pressPos>>

\* a mousemove reaches the window: the handleDrag listener of every mounted view runs
WindowMouseMove(pos) ==
  /\ nPointer < MaxPointer
  /\ dragging' = [v \in Views |->
                    IF listeners[v] THEN handleDrag(v, pos, FALSE).dragging ELSE dragging[v]]
  /\ prevMouse' = [v \in Views |->
                     IF listeners[v] THEN handleDrag(v, pos, FALSE).prevMouse ELSE prevMouse[v]]
  /\ events' = [v \in Views |->
                  IF listeners[v] THEN events[v] \o handleDrag(v, pos, FALSE).out
                  ELSE events[v]]
  /\ lastPointer' = [type |-> "move", view |-> 0, region |-> "window", button |-> 0,
                     pos |-> pos]
  /\ mouse' = pos
  /\ nPointer' = nPointer + 1
  /\ UNCHANGED <<gateVars, patchVars, isMac, steps, outVars, lifeVars, bufVars, sizeVars, keyVars, queryVars,
                 pressPos>>

\* a mouseup or mouseleave reaches the window: every mounted view's handleDragEnd runs
WindowMouseEnd(type, pos) ==
  /\ nPointer < MaxPointer
  /\ dragging' = [v \in Views |->
                    IF listeners[v] THEN handleDragEnd(v, pos).dragging ELSE dragging[v]]
  /\ prevMouse' = [v \in Views |->
                     IF listeners[v] THEN handleDragEnd(v, pos).prevMouse ELSE prevMouse[v]]
  /\ events' = [v \in Views |->
                  IF listeners[v] THEN events[v] \o handleDragEnd(v, pos).out
                  ELSE events[v]]
  /\ lastPointer' = [type |-> type, view |-> 0, region |-> "window", button |-> 0,
                     pos |-> pos]
  /\ mouse' = pos
  /\ nPointer' = nPointer + 1
  /\ UNCHANGED <<gateVars, patchVars, isMac, steps, outVars, lifeVars, bufVars, sizeVars, keyVars, queryVars,
                 pressPos>>

\* ------------------------------------------------------------ keys and queries
\* a key event reaches the engine of a view, which asks the attached interceptor
KeyEvent(v, ev) ==
  /\ keyHandler[v]
  /\ nKeys < MaxKeys
  /\ LET r == customKeyEventHandler(isMac, ev)
     IN  /\ events' = [events EXCEPT ![v] = @ \o r.out]
         /\ lastKey' = [view |-> v, ev |-> ev, ret |-> r.ret, out |-> r.out]
  /\ nKeys' = nKeys + 1
  /\ UNCHANGED <<gateVars, patchVars, isMac, steps, outVars, lifeVars, bufVars, sizeVars, dragVars, queryVars>>

\* The function the engine runs for the query named h: the prototype property of that
\* name, unless the engine class has no handler under that name, in which case the
\* engine's own handler runs and the property patchXTerm created is never called.
EngineHandler(h) == IF h \in lacks THEN <<>> ELSE proto[h]

\* the engine of a view parses an escape sequence that reaches one of the handlers
FeedQuery(v, h, param, origRet) ==
  /\ term[v]
  /\ ~disposed[v]
  /\ (h = "windowOptions") = (param \in WinParams)
  /\ LET r == CallHandler(EngineHandler(h), v, param, origRet)
     IN  lastQuery' = [view |-> v, handler |-> h, param |-> param, origRet |-> origRet,
                       reply |-> r.reply, ret |-> r.ret, origCalls |-> r.origCalls]
  /\ UNCHANGED <<gateVars, patchVars, isMac, steps, outVars, lifeVars, bufVars, sizeVars, dragVars, keyVars,
                 events>>

\* the engine reports user input as a string: the onData subscription forwards it
EngineData(v, data) ==
  /\ "data" \in subs[v]
  /\ nOut < MaxOut
  /\ nOut' = nOut + 1
  /\ events' = [events EXCEPT ![v] = Append(@, DataEv(onData(data)))]
  /\ lastOut' = [view |-> v, kind |-> "data", str |-> data]
  /\ UNCHANGED <<gateVars, patchVars, isMac, steps, lifeVars, bufVars, sizeVars, dragVars,
                 keyVars, queryVars>>

\* the engine reports a binary-mode string: the onBinary subscription forwards it
EngineBinary(v, data) ==
  /\ "binary" \in subs[v]
  /\ nOut < MaxOut
  /\ nOut' = nOut + 1
  /\ events' = [events EXCEPT ![v] = Append(@, DataEv(onBinary(data)))]
  /\ lastOut' = [view |-> v, kind |-> "binary", str |-> data]
  /\ UNCHANGED <<gateVars, patchVars, isMac, steps, lifeVars, bufVars, sizeVars, dragVars,
                 keyVars, queryVars>>

\* the owner changes the rows/cols props of a live view; a changed prop schedules an update
SetDims(v, d) ==
  /\ alive[v]
  /\ d # dims[v]
  /\ dims' = [dims EXCEPT ![v] = d]
  /\ dirty' = [dirty EXCEPT ![v] = TRUE]
  /\ UNCHANGED <<gateVars, patchVars, isMac, steps, outVars, lifeVars, bufVars, termSize,
                 dragVars, keyVars, queryVars, events>>

\* the scheduled update of a live view runs the reactive statement `term?.resize(cols, rows)`
Update(v) ==
  /\ alive[v]
  /\ dirty[v]
  /\ dirty' = [dirty EXCEPT ![v] = FALSE]
  /\ termSize' = [termSize EXCEPT ![v] = IF term[v] THEN resize(dims[v][1], dims[v][2]) ELSE @]
  /\ UNCHANGED <<gateVars, patchVars, isMac, steps, outVars, lifeVars, bufVars, dims,
                 dragVars, keyVars, queryVars, events>>

\* ------------------------------------------------------------ specification
\* Initialization of every view through the shared font gate, with writes of the owner.
\* Teardown (Destroy) is interleaved with the input handlers in the specifications below.
Next ==
  \/ \E v \in Views : Mount(v)
  \/ \E v \in Views : XtermImported(v)
  \/ \E v \in Views : LinksImported(v)
  \/ \E v \in Views : FontImported(v)
  \/ \E v \in Views, ok \in BOOLEAN : FontSettled(v, ok)
  \/ \E v \in Views : MountEngine(v)
  \/ \E v \in Views : Write(v)

Spec == Init /\ [][Next]_vars

\* Views that take part in the specifications of the input handlers; the other views
\* are never mounted there.
DragViews == {1, 2}
KeyViews == {1}
QueryViews == {1, 2}
OutViews == {1}
ResizeViews == {1, 2}

\* pointer gestures on mounted views
NextDrag ==
  \/ \E v \in DragViews : Mount(v)
  \/ \E v \in DragViews : Destroy(v)
  \/ \E v \in DragViews, region \in Regions, button \in Buttons : Press(v, region, button)
  \/ \E v \in DragViews : ClickClose(v)
  \/ \E pos \in Points : WindowMouseMove(pos)
  \/ \E type \in {"up", "leave"}, pos \in Points : WindowMouseEnd(type, pos)

SpecDrag == Init /\ [][NextDrag]_vars

\* initialization of a view, then key events
NextKeys ==
  \/ \E v \in KeyViews : Mount(v)
  \/ \E v \in KeyViews : XtermImported(v)
  \/ \E v \in KeyViews : LinksImported(v)
  \/ \E v \in KeyViews : FontImported(v)
  \/ \E v \in KeyViews, ok \in BOOLEAN : FontSettled(v, ok)
  \/ \E v \in KeyViews : MountEngine(v)
  \/ \E v \in KeyViews : Destroy(v)
  \/ \E v \in KeyViews, ev \in KeyEvents : KeyEvent(v, ev)

SpecKeys == Init /\ [][NextKeys]_vars

\* initialization of the views, then escape-sequence queries
NextQuery ==
  \/ \E v \in QueryViews : Mount(v)
  \/ \E v \in QueryViews : XtermImported(v)
  \/ \E v \in QueryViews : LinksImported(v)
  \/ \E v \in QueryViews : FontImported(v)
  \/ \E v \in QueryViews, ok \in BOOLEAN : FontSettled(v, ok)
  \/ \E v \in QueryViews : MountEngine(v)
  \/ \E v \in QueryViews : Destroy(v)
  \/ \E v \in QueryViews, h \in Handlers, param \in WinParams \cup {0},
        origRet \in {"true", "false"} : FeedQuery(v, h, param, origRet)

SpecQuery == Init /\ [][NextQuery]_vars

\* the same, on an engine class that lacks one of the expected handlers
SpecIncompat == InitIncompat /\ [][NextQuery]_vars

\* initialization of one view, then strings reported by its engine
NextOutput ==
  \/ \E v \in OutViews : Mount(v)
  \/ \E v \in OutViews : XtermImported(v)
  \/ \E v \in OutViews : LinksImported(v)
  \/ \E v \in OutViews : FontImported(v)
  \/ \E v \in OutViews, ok \in BOOLEAN : FontSettled(v, ok)
  \/ \E v \in OutViews : MountEngine(v)
  \/ \E v \in OutViews : Destroy(v)
  \/ \E v \in OutViews, data \in Strings : EngineData(v, data)
  \/ \E v \in OutViews, data \in Strings : EngineBinary(v, data)

SpecOutput == Init /\ [][NextOutput]_vars

\* initialization of the views while the owner changes their rows/cols props
NextResize ==
  \/ \E v \in ResizeViews : Mount(v)
  \/ \E v \in ResizeViews : XtermImported(v)
  \/ \E v \in ResizeViews : LinksImported(v)
  \/ \E v \in ResizeViews : FontImported(v)
  \/ \E v \in ResizeViews, ok \in BOOLEAN : FontSettled(v, ok)
  \/ \E v \in ResizeViews : MountEngine(v)
  \/ \E v \in ResizeViews : Destroy(v)
  \/ \E v \in ResizeViews, d \in Sizes : SetDims(v, d)
  \/ \E v \in ResizeViews : Update(v)

SpecResize == Init /\ [][NextResize]_vars

\* ------------------------------------------------------------------ claims
IsPrefix(s, t) == Len(s) <= Len(t) /\ SubSeq(t, 1, Len(s)) = s
NoDuplicates(s) == \A i, j \in 1..Len(s) : s[i] = s[j] => i = j
InitCompletes(v) == pc[v] = "fontsDone" /\ pc'[v] = "ready"

\* C1: the step that completes a view's initialization leaves its engine with exactly
\* the chunks written so far, each once and in the order of the write calls.
C1_PreloadDeliveredInOrder ==
  [][\A v \in Views : InitCompletes(v) =>
        /\ engineIn[v] = <<>>
        /\ engineIn'[v] = written[v]
        /\ NoDuplicates(engineIn'[v])]_vars

C1_Witness ==
  \E v \in Views :
    /\ pc[v] = "ready"
    /\ Len(preloadBuffer[v]) >= 2
    /\ written[v] = preloadBuffer[v]
    /\ engineIn[v] = written[v]

\* C2: in every state the chunks delivered to the engine are a duplicate-free prefix
\* of the chunks written, and every written chunk not yet delivered is in the buffer.
C2_DeliveredIsPrefixOfWritten ==
  \A v \in Views :
    /\ IsPrefix(engineIn[v], written[v])
    /\ NoDuplicates(engineIn[v])
    /\ \A i \in 1..Len(written[v]) :
         i <= Len(engineIn[v]) \/ written[v][i] \in Range(preloadBuffer[v])

C2_Witness ==
  \E v, w \in Views :
    /\ pc[v] = "ready"
    /\ Len(preloadBuffer[v]) >= 1
    /\ Len(engineIn[v]) > Len(preloadBuffer[v])
    /\ ~term[w]
    /\ Len(preloadBuffer[w]) >= 1

\* C3: the font-load operation is started at most once in the process.
C3_LoadStartedAtMostOnce == loads <= 1

\* C4: a step in which a load settles, with success or failure, leaves the gate
\* loaded, returns normally to the caller that started the load, and resumes every
\* caller suspended on the waitlist.
C4_SettleReleasesEveryone ==
  [][\A v \in Views : (pc[v] = "fontLoad" /\ pc'[v] # "fontLoad") =>
        /\ state' = "loaded"
        /\ pc'[v] = "fontsDone"
        /\ \A w \in Views : pc[w] = "waiting" => pc'[w] = "fontsDone"]_vars

C4_Witness ==
  \E v, w \in Views :
    /\ v # w
    /\ warned[v]
    /\ state = "loaded"
    /\ pc[v] = "fontsDone"
    /\ w \in Range(waitlist)
    /\ pc[w] = "fontsDone"

\* C5: while the gate is loaded no waitForFonts call is suspended on a font load or on
\* the waitlist, and none is about to start a load.
C5_LoadedMeansNobodySuspended ==
  state = "loaded" => \A v \in Views : pc[v] \notin {"importFFO", "fontLoad", "waiting"}

\* pointer inputs, as the environment produced them
PointerInput == nPointer' = nPointer + 1
Moves(s) == SelectSeq(s, LAMBDA e : e.type = "move")
Gesture(s) == SelectSeq(s, LAMBDA e : e.type \in {"move", "moving"})
Mounted(v) == listeners[v]

\* C6: a pointer-move makes every mounted view that is dragging dispatch one moving
\* event whose delta is the pointer position minus the position of the press that
\* started the drag, and makes an idle view dispatch nothing; no move event is
\* dispatched by a pointer-move or a press.
C6_MovingIsCumulative ==
  [][/\ (PointerInput /\ lastPointer'.type = "move") =>
          \A v \in Views :
            events'[v] = IF Mounted(v) /\ dragging[v]
                           THEN Append(events[v],
                                       MovingEv(Delta(lastPointer'.pos, pressPos[v])))
                           ELSE events[v]
     /\ (PointerInput /\ lastPointer'.type \in {"move", "press", "click"}) =>
          \A v \in Views : Moves(events'[v]) = Moves(events[v])]_vars

\* press (100,100), moves to (130,115) and (150,140), release at (150,140)
C6_Witness ==
  \E v \in Views :
    /\ pressPos[v] = <<100, 100>>
    /\ lastPointer.type = "up"
    /\ lastPointer.pos = <<150, 140>>
    /\ Gesture(events[v]) = <<Ev("moving", 30, 15, <<>>), Ev("moving", 50, 40, <<>>),
                              Ev("move", 50, 40, <<>>)>>

\* C7: a release or leave makes every mounted view that is dragging dispatch one move
\* event with the delta from the drag's press to the release and become idle, and makes
\* an idle view dispatch nothing and stay idle; a view becomes dragging only by a press
\* on its header, and dispatches a move event only in a step that ends its drag.
C7_OneMovePerGesture ==
  [][/\ (PointerInput /\ lastPointer'.type \in {"up", "leave"}) =>
          \A v \in Views :
            IF Mounted(v) /\ dragging[v]
              THEN /\ events'[v] = Append(events[v],
                                          MoveEv(Delta(lastPointer'.pos, pressPos[v])))
                   /\ ~dragging'[v]
              ELSE /\ events'[v] = events[v]
                   /\ dragging'[v] = dragging[v]
     /\ \A v \in Views :
          /\ (~dragging[v] /\ dragging'[v]) =>
               /\ lastPointer'.type = "press"
               /\ lastPointer'.view = v
               /\ lastPointer'.region = "header"
          /\ Moves(events'[v]) # Moves(events[v]) =>
               /\ lastPointer'.type \in {"up", "leave"}
               /\ dragging[v] /\ ~dragging'[v]
               /\ Len(Moves(events'[v])) = Len(Moves(events[v])) + 1]_vars

C7_Witness ==
  \E v, w \in Views :
    /\ v # w
    /\ lastPointer.type = "leave"
    /\ ~dragging[v]
    /\ Len(Moves(events[v])) = 1
    /\ events[v][Len(events[v])].type = "move"
    /\ Mounted(w)
    /\ Gesture(events[w]) = <<>>

\* C8: every primary-button press anywhere within the view, the header controls
\* included, dispatches a focus event.
C8_FocusOnEveryPress ==
  [][(PointerInput /\ lastPointer'.type = "press" /\ lastPointer'.button = 0) =>
        events'[lastPointer'.view] = Append(events[lastPointer'.view], FocusEv)]_vars

\* C8, amended: a press on the header outside its three buttons, or on the rest of
\* the view, dispatches exactly one focus event, whether the view is idle or dragging;
\* a press on one of the three header buttons dispatches nothing.
C8_FocusOutsideControls ==
  [][(PointerInput /\ lastPointer'.type = "press") =>
        LET v == lastPointer'.view
        IN  IF lastPointer'.region = "control"
              THEN events'[v] = events[v]
              ELSE events'[v] = Append(events[v], FocusEv)]_vars

C8_Witness ==
  \E v \in Views :
    /\ lastPointer.type = "press"
    /\ lastPointer.view = v
    /\ lastPointer.region = "header"
    /\ dragging[v]
    /\ Len(events[v]) >= 2
    /\ events[v][Len(events[v])] = FocusEv
    /\ events[v][Len(events[v]) - 1].type = "moving"

\* C9: on every engine, the six reply handlers give no reply; window-options with
\* first parameter 18 returns true with no reply and without the original handler;
\* window-options with another first parameter calls the original handler once, with
\* the same receiver and parameter, and returns what it returned.
C9_SuppressedQueries ==
  lastQuery.handler # "none" =>
    /\ patched
    /\ lastQuery.handler \in NoopHandlers =>
         /\ ~lastQuery.reply
         /\ lastQuery.origCalls = <<>>
    /\ (lastQuery.handler = "windowOptions" /\ lastQuery.param = 18) =>
         /\ lastQuery.ret = "true"
         /\ ~lastQuery.reply
         /\ lastQuery.origCalls = <<>>
    /\ (lastQuery.handler = "windowOptions" /\ lastQuery.param # 18) =>
         /\ lastQuery.origCalls = << <<lastQuery.view, lastQuery.param>> >>
         /\ lastQuery.ret = lastQuery.origRet

C9_Witness ==
  /\ lastQuery.handler = "windowOptions"
  /\ lastQuery.param = 14
  /\ lastQuery.view = 2
  /\ lastQuery.origCalls = << <<2, 14>> >>
  /\ lastQuery.ret = "false"
  /\ term[1] /\ term[2]

\* C10: the interceptor, given the platform's chord with ArrowLeft, ArrowRight or
\* Backspace, dispatches exactly one data event with the byte 1, 5 or 21 and returns
\* false; given any other key event it dispatches nothing and returns true.
C10_LineEditingChords ==
  [][nKeys' = nKeys + 1 =>
        LET v == lastKey'.view
            e == lastKey'.ev
            chord == IF isMac THEN e.metaKey /\ ~e.ctrlKey /\ ~e.altKey
                              ELSE e.ctrlKey /\ ~e.metaKey /\ ~e.altKey
            byte == CASE e.key = "ArrowLeft" -> 1
                      [] e.key = "ArrowRight" -> 5
                      [] e.key = "Backspace" -> 21
                      [] OTHER -> 0
        IN  IF chord /\ byte # 0
              THEN /\ events'[v] = Append(events[v], Ev("data", 0, 0, <<byte>>))
                   /\ lastKey'.ret = FALSE
              ELSE /\ events'[v] = events[v]
                   /\ lastKey'.ret = TRUE]_vars

C10_Witness ==
  /\ isMac
  /\ lastKey.view = 1
  /\ lastKey.ev = [key |-> "ArrowLeft", metaKey |-> TRUE, ctrlKey |-> FALSE, altKey |-> FALSE]
  /\ lastKey.ret = FALSE
  /\ events[1] = <<Ev("data", 0, 0, <<1>>)>>

\* C11: every binary-mode string the engine reports through onBinary produces exactly one
\* data event, whose payload has one byte per character of the string, the i-th byte being
\* the i-th character code (no UTF-8 re-encoding).
C11_BinaryForwardedVerbatim ==
  [][\A v \in Views :
       (nOut' = nOut + 1 /\ lastOut'.view = v /\ lastOut'.kind = "binary") =>
         LET s == lastOut'.str
         IN  /\ Len(events'[v]) = Len(events[v]) + 1
             /\ SubSeq(events'[v], 1, Len(events[v])) = events[v]
             /\ \A w \in Views \ {v} : events'[w] = events[w]
             /\ LET e == events'[v][Len(events'[v])]
                IN  /\ e.type = "data"
                    /\ Len(e.bytes) = Len(s)
                    /\ \A i \in 1..Len(s) : e.bytes[i] = s[i]]_vars

C11_Witness ==
  \E v \in Views :
    /\ lastOut = [view |-> v, kind |-> "binary", str |-> <<255, 0, 65>>]
    /\ events[v] = <<DataEv(<<255, 0, 65>>)>>

\* C12: when patchXTerm is applied to an engine class that lacks one of the expected
\* handlers, the application reports an error (so the initialization that called it does
\* not run to its end), and after such a failure a later view's application does not
\* silently skip the patch either: no view completes its initialization on such an engine.
C12_IncompatibleEngineFailsLoudly ==
  lacks # {} => \A v \in Views : pc[v] # "ready" /\ ~patched

\* C13: once a view has been torn down, whatever the point of its lifecycle at which that
\* happened, every engine created for it has been disposed and none of its listeners
\* (engine subscriptions, window listeners) is registered.
C13_TeardownLeavesNothing ==
  \A v \in Views :
    ~alive[v] => /\ term[v] => disposed[v]
                 /\ subs[v] = {}
                 /\ ~listeners[v]

\* C14: the handler replacement of patchXTerm is executed exactly once in the process: the
\* first initialization that completes installs it, every later application leaves the
\* handlers as they are and completes normally, so the window-options wrapper is never
\* wrapped around itself and the handlers after two applications equal those after one.
C14_PatchAppliedOnce ==
  [][/\ patched => patched' /\ proto' = proto
     /\ \A v \in Views :
          InitCompletes(v) =>
            /\ patched'
            /\ proto'["windowOptions"] = <<"wrap18">>
            /\ proto'["unhook"] = <<"reset">>
            /\ \A h \in NoopHandlers : proto'[h] = <<"noop">>]_vars

C14_Witness ==
  /\ \A v \in QueryViews : pc[v] = "ready"
  /\ patched
  /\ proto["windowOptions"] = <<"wrap18">>

\* a occurs in s, exactly once, and b occurs later
Before(s, a, b) ==
  /\ \E i, j \in 1..Len(s) : i < j /\ s[i] = a /\ s[j] = b
  /\ \A i, j \in 1..Len(s) : s[i] = a /\ s[j] = a => i = j

InOrder(s, chain) == \A k \in 1..(Len(chain) - 1) : Before(s, chain[k], chain[k + 1])

\* C15 (as claimed): a view's initialization runs, after the font gate has returned: engine
\* constructed, patch applied, key interceptor attached, surface mounted and sized, pending
\* queue flushed, and only then the data, binary and title-change subscriptions.
C15_SubscriptionsAfterFlush ==
  [][\A v \in Views :
       steps'[v] # steps[v] =>
         /\ pc[v] = "fontsDone" /\ steps[v] = <<>>
         /\ InOrder(steps'[v], <<"construct", "patch", "keys", "open", "resize", "flush">>)
         /\ \A sub \in Subscriptions : Before(steps'[v], "flush", sub)]_vars

\* C15 (amended): the same order, except that the title-change subscription is made after
\* the surface is mounted and sized and before the flush; the data and binary
\* subscriptions are made after the flush, and no other subscription is made.
C15_InitializationOrder ==
  [][\A v \in Views :
       steps'[v] # steps[v] =>
         /\ pc[v] = "fontsDone" /\ steps[v] = <<>>
         /\ InOrder(steps'[v], <<"construct", "patch", "keys", "open", "resize", "title",
                                  "flush", "data", "binary">>)
         /\ subs'[v] = Subscriptions]_vars

C15_Witness ==
  \E v \in Views :
    /\ steps[v] # <<>>
    /\ Len(preloadBuffer[v]) >= 2
    /\ engineIn[v] = preloadBuffer[v]
    /\ subs[v] = Subscriptions

\* C16: the font-gate state only moves forward along initial -> loading -> loaded: once
\* loaded it never becomes loading or initial again, and once loading it never becomes
\* initial again.
C16_GateStateMonotone ==
  [][/\ state = "loaded" => state' = "loaded"
     /\ state = "loading" => state' # "initial"]_vars

\* C17 (as claimed): after the flush at the end of initialization the view's pending-write
\* queue is empty, and stays empty under every later write.
C17_QueueEmptyAfterFlush ==
  \A v \in Views : loaded[v] => preloadBuffer[v] = <<>>

\* C17 (amended): the flush leaves the pending-write queue as it is (it is not emptied),
\* and from then on the queue never changes: every later write goes straight to the
\* engine, as one more chunk at the end of what the engine received, and is not enqueued.
C17_QueueFrozenAfterFlush ==
  [][\A v \in Views :
       loaded'[v] =>
         /\ preloadBuffer'[v] = preloadBuffer[v]
         /\ written'[v] # written[v] =>
              engineIn'[v] = Append(engineIn[v], written'[v][Len(written'[v])])]_vars

C17_Witness ==
  \E v \in Views :
    /\ loaded[v]
    /\ preloadBuffer[v] # <<>>
    /\ Len(engineIn[v]) > Len(preloadBuffer[v])

\* C18: whenever a view's engine exists and no reactive update is pending, the engine's
\* size is the view's current <<cols, rows>>: the engine is sized to the props current at
\* initialization (changes made before it existed are not lost), every later change is
\* passed on as resize(cols, rows), and resizing to the size it already has changes nothing.
C18_EngineSizeFollowsProps ==
  [][\A v \in Views :
       /\ InitCompletes(v) => termSize'[v] = dims[v]
       /\ term'[v] /\ ~dirty'[v] => termSize'[v] = dims'[v]
       /\ term[v] /\ dirty[v] /\ ~dirty'[v] /\ termSize[v] = dims[v] =>
            termSize'[v] = termSize[v]]_vars

C18_Witness ==
  \E v \in Views :
    /\ term[v] /\ alive[v] /\ ~dirty[v]
    /\ dims[v] # DefaultDims
    /\ termSize[v] = dims[v]

\* C19: a view starts dragging, or changes its recorded drag origin, only on a press of
\* the primary button on its own header outside the header's buttons, and the origin
\* recorded is the position of that press; a press of another button, a press on a
\* header button or outside the header, and pointer input on another view do neither.
C19_DragStartsOnPrimaryHeaderPress ==
  [][\A v \in Views :
       ((~dragging[v] /\ dragging'[v]) \/ prevMouse'[v] # prevMouse[v]) =>
         /\ PointerInput
         /\ lastPointer'.type = "press"
         /\ lastPointer'.view = v
         /\ lastPointer'.region = "header"
         /\ lastPointer'.button = 0
         /\ prevMouse'[v] = lastPointer'.pos]_vars

\* C20: no view constructs its engine, and so no chunk reaches an engine, before at least
\* one font load has run to completion (resolved or rejected); as long as no font load
\* has completed, no engine exists and every chunk written is in its view's pending queue.
C20_NoEngineBeforeFontLoad ==
  /\ \A v \in Views : (term[v] \/ engineIn[v] # <<>> \/ pc[v] = "fontsDone") => loadsSettled >= 1
  /\ loadsSettled = 0 =>
       \A v \in Views : ~term[v] /\ engineIn[v] = <<>> /\ preloadBuffer[v] = written[v]

C20_Witness ==
  \E v, w \in Views :
    /\ term[v] /\ loadsSettled = 1 /\ engineIn[v] # <<>>
    /\ pc[w] \in {"waiting", "fontLoad"} /\ preloadBuffer[w] # <<>>

====
